---- MODULE Spec2Model ----
(***************************************************************************)
(* Model of asd::vector<T> and asd::allocator<T> (src/src/vector.hpp).     *)
(*                                                                         *)
(* The heap is a finite set of regions; a region is either free or an      *)
(* allocated array of element slots.  A slot is raw memory, a live element *)
(* of T (its value), or a moved-from element.  T is a type with a          *)
(* non-trivial destructor (std::string in src/src/example.cpp), so         *)
(* destroy() runs std::destroy.  Every public operation of the vector is   *)
(* one action; the step the operation performed is recorded in `last`      *)
(* together with the trace of allocator and element events it made.        *)
(***************************************************************************)
EXTENDS Integers, Sequences, FiniteSets, TLC

\* ---- bounds of the model ----
NumVecs == 2
NumValues == 2
MaxCount == 2
MaxRegions == 3
PushBound == 5
MidCount == 3

VecIds == 1..NumVecs
Values == 1..NumValues
Regions == 1..MaxRegions

\* nullptr
Null == 0
\* contents of a slot that holds no object (fresh from malloc, or destructed)
Raw == 0
\* contents of a slot whose object has been moved from
Moved == -1

VARIABLES vec, heap, last, hist
vars == <<vec, heap, last, hist>>

\* ---- the members of one vector object ----
NoVector == [alive |-> FALSE, m_count |-> 0, m_capacity |-> 0, m_data_ptr |-> Null]

FreeRegion == [alloc |-> FALSE, slots |-> <<>>]

IsLive(x) == x \in Values
IsObject(x) == x # Raw

Ev(k, p, i, live) == [k |-> k, p |-> p, i |-> i, live |-> live]

\* The running state of one operation: the objects, the heap, the events
\* made so far and whether std::bad_alloc is propagating.
Start == [vec |-> vec, heap |-> heap, ev |-> <<>>, exc |-> FALSE]

\* std::malloc returns nullptr or the address of memory that is not in use
MallocResults(h) ==
    LET free == {r \in Regions : ~h[r].alloc}
    IN  {Null} \cup (IF free = {} THEN {} ELSE {CHOOSE r \in free : \A q \in free : r <= q})

\* ---- asd::allocator ----
allocate(s, n, r) ==
    IF r = Null
    THEN [s EXCEPT !.exc = TRUE, !.ev = Append(@, Ev("bad_alloc", Null, n, FALSE))]
    ELSE [s EXCEPT !.heap[r] = [alloc |-> TRUE, slots |-> [j \in 1..n |-> Raw]],
                   !.ev = Append(@, Ev("allocate", r, n, FALSE))]

deallocate(s, p) ==
    IF p = Null
    THEN [s EXCEPT !.ev = Append(@, Ev("deallocate", Null, 0, FALSE))]
    ELSE IF ~s.heap[p].alloc
    THEN [s EXCEPT !.ev = Append(@, Ev("double_free", p, 0, FALSE))]
    ELSE [s EXCEPT !.heap[p] = FreeRegion,
                   !.ev = Append(@, Ev("deallocate", p, 0,
                              \E j \in 1..Len(s.heap[p].slots) : IsLive(s.heap[p].slots[j])))]

\* ---- placement new: new (p + i) T(x) ----
InRegion(s, p, i) == p # Null /\ s.heap[p].alloc /\ i < Len(s.heap[p].slots)

construct(s, p, i, x) ==
    IF ~InRegion(s, p, i)
    THEN [s EXCEPT !.ev = Append(@, Ev("wild_write", p, i, FALSE))]
    ELSE [s EXCEPT !.heap[p].slots[i + 1] = x,
                   !.ev = Append(@, Ev("construct", p, i, IsObject(s.heap[p].slots[i + 1])))]

\* ---- asd::move ----
RECURSIVE move_loop(_, _, _, _, _)
move_loop(s, input, count, output, i) ==
    IF i >= count THEN s
    ELSE LET s1 == construct(s, output, i, s.heap[input].slots[i + 1])
             s2 == [s1 EXCEPT !.heap[input].slots[i + 1] = Moved]
         IN  move_loop(s2, input, count, output, i + 1)

\* asd::move with the loop bound off by one
asd_move_short(s, input, count, output) == move_loop(s, input, count - 1, output, 0)

asd_move(s, input, count, output) == move_loop(s, input, count, output, 0)

\* ---- asd::copy ----
\* g gives the values a copy constructor produces when source and
\* destination are the same object (new (p) T(*p)), which T does not define.
RECURSIVE copy_loop(_, _, _, _, _, _)
copy_loop(s, input, count, output, i, g) ==
    IF i >= count THEN s
    ELSE LET x == IF input = output THEN g[i + 1] ELSE s.heap[input].slots[i + 1]
         IN  copy_loop(construct(s, output, i, x), input, count, output, i + 1, g)

asd_copy(s, input, count, output, g) == copy_loop(s, input, count, output, 0, g)

\* ---- std::destroy(first, first + count) ----
RECURSIVE destroy_loop(_, _, _, _)
destroy_loop(s, p, count, i) ==
    IF i >= count THEN s
    ELSE LET s1 == IF InRegion(s, p, i)
                   THEN [s EXCEPT !.heap[p].slots[i + 1] = Raw,
                                  !.ev = Append(@, Ev("destruct", p, i, IsLive(s.heap[p].slots[i + 1])))]
                   ELSE [s EXCEPT !.ev = Append(@, Ev("wild_destruct", p, i, FALSE))]
         IN  destroy_loop(s1, p, count, i + 1)

\* ---- asd::vector private members ----
reset(s, v) ==
    [s EXCEPT !.vec[v].m_count = 0, !.vec[v].m_capacity = 0, !.vec[v].m_data_ptr = Null]

\* init with its first two arguments taken in the wrong order
init_swapped(s, v, capacity, count, data_ptr) ==
    [s EXCEPT !.vec[v].m_count = capacity, !.vec[v].m_capacity = count,
              !.vec[v].m_data_ptr = data_ptr]

init(s, v, capacity, count, data_ptr) ==
    [s EXCEPT !.vec[v].m_count = count, !.vec[v].m_capacity = capacity,
              !.vec[v].m_data_ptr = data_ptr]

\* reallocate releasing the old storage before it asks for the new one
reallocate_free_first(s, v, r) ==
    LET me == s.vec[v]
        new_capacity == IF me.m_capacity = 0 THEN 1 ELSE me.m_capacity * 2
        s0 == deallocate(s, me.m_data_ptr)
        s1 == allocate(s0, new_capacity, r)
    IN  IF s1.exc THEN s1
        ELSE init(s1, v, new_capacity, me.m_count, r)

\* reallocate growing by one slot instead of doubling
reallocate_plus_one(s, v, r) ==
    LET me == s.vec[v]
        new_capacity == me.m_capacity + 1
        s1 == allocate(s, new_capacity, r)
    IN  IF s1.exc THEN s1
        ELSE LET s2 == asd_move(s1, me.m_data_ptr, me.m_count, r)
                 s3 == deallocate(s2, me.m_data_ptr)
             IN  init(s3, v, new_capacity, me.m_count, r)

\* reallocate updating the members before it releases the old storage
reallocate_init_first(s, v, r) ==
    LET me == s.vec[v]
        new_capacity == IF me.m_capacity = 0 THEN 1 ELSE me.m_capacity * 2
        s1 == allocate(s, new_capacity, r)
    IN  IF s1.exc THEN s1
        ELSE LET s2 == asd_move(s1, me.m_data_ptr, me.m_count, r)
                 s3 == init(s2, v, new_capacity, me.m_count, r)
             IN  deallocate(s3, s3.vec[v].m_data_ptr)

reallocate(s, v, r) ==
    LET me == s.vec[v]
        new_capacity == IF me.m_capacity = 0 THEN 1 ELSE me.m_capacity * 2
        s1 == allocate(s, new_capacity, r)
    IN  IF s1.exc THEN s1
        ELSE LET s2 == asd_move(s1, me.m_data_ptr, me.m_count, r)
                 s3 == deallocate(s2, me.m_data_ptr)
             IN  init(s3, v, new_capacity, me.m_count, r)

\* destroy that destructs the elements but does not release the storage
destroy_no_free(s, v) ==
    destroy_loop(s, s.vec[v].m_data_ptr, s.vec[v].m_count, 0)

destroy(s, v) ==
    deallocate(destroy_loop(s, s.vec[v].m_data_ptr, s.vec[v].m_count, 0), s.vec[v].m_data_ptr)

\* ---- asd::vector public members ----
size(s, v) == s.vec[v].m_count

capacity(s, v) == s.vec[v].m_capacity

vector_default(s, v) == reset([s EXCEPT !.vec[v].alive = TRUE], v)

\* copy constructor that copies the pointer instead of the elements
vector_copy_shallow(s, v, other, r) ==
    LET o == s.vec[other]
    IN  init([s EXCEPT !.vec[v].alive = TRUE], v, o.m_count, o.m_count, o.m_data_ptr)

\* copy constructor that sizes the new storage by the source's capacity
vector_copy_cap(s, v, other, r) ==
    IF size(s, other) = 0
    THEN reset([s EXCEPT !.vec[v].alive = TRUE], v)
    ELSE LET s1 == allocate(s, capacity(s, other), r)
         IN  IF s1.exc THEN s1
             ELSE LET s2 == asd_copy(s1, s1.vec[other].m_data_ptr, size(s1, other), r, <<>>)
                  IN  init([s2 EXCEPT !.vec[v].alive = TRUE], v, capacity(s2, other), size(s2, other), r)

vector_copy(s, v, other, r) ==
    IF size(s, other) = 0
    THEN reset([s EXCEPT !.vec[v].alive = TRUE], v)
    ELSE LET s1 == allocate(s, size(s, other), r)
         IN  IF s1.exc THEN s1
             ELSE LET s2 == asd_copy(s1, s1.vec[other].m_data_ptr, size(s1, other), r, <<>>)
                  IN  init([s2 EXCEPT !.vec[v].alive = TRUE], v, size(s2, other), size(s2, other), r)

\* move constructor that does not reset its source
vector_move_noreset(s, v, other) ==
    LET o == s.vec[other]
    IN  init([s EXCEPT !.vec[v].alive = TRUE], v, o.m_capacity, o.m_count, o.m_data_ptr)

vector_move(s, v, other) ==
    LET o == s.vec[other]
    IN  reset(init([s EXCEPT !.vec[v].alive = TRUE], v, o.m_capacity, o.m_count, o.m_data_ptr), other)

\* copy assignment that reallocates when the capacity is just enough
assign_copy_le(s, v, other, r, g) ==
    LET need == s.vec[v].m_capacity <= s.vec[other].m_count
        s1 == IF need THEN allocate(s, s.vec[other].m_count, r) ELSE s
    IN  IF s1.exc THEN s1
        ELSE LET s2 == IF need THEN [destroy(s1, v) EXCEPT !.vec[v].m_data_ptr = r] ELSE s1
                 s3 == asd_copy(s2, s2.vec[other].m_data_ptr, s2.vec[other].m_count,
                                s2.vec[v].m_data_ptr, g)
             IN  init(s3, v, size(s3, other), size(s3, other), s3.vec[v].m_data_ptr)

\* copy assignment that destroys its storage before it asks for the new one
assign_copy_destroy_first(s, v, other, r, g) ==
    LET need == s.vec[v].m_capacity < s.vec[other].m_count
        s0 == IF need THEN destroy(s, v) ELSE s
        s1 == IF need THEN allocate(s0, s0.vec[other].m_count, r) ELSE s0
    IN  IF s1.exc THEN s1
        ELSE LET s2 == IF need THEN [s1 EXCEPT !.vec[v].m_data_ptr = r] ELSE s1
                 s3 == asd_copy(s2, s2.vec[other].m_data_ptr, s2.vec[other].m_count,
                                s2.vec[v].m_data_ptr, g)
             IN  init(s3, v, size(s3, other), size(s3, other), s3.vec[v].m_data_ptr)

assign_copy(s, v, other, r, g) ==
    LET need == s.vec[v].m_capacity < s.vec[other].m_count
        s1 == IF need THEN allocate(s, s.vec[other].m_count, r) ELSE s
    IN  IF s1.exc THEN s1
        ELSE LET s2 == IF need THEN [destroy(s1, v) EXCEPT !.vec[v].m_data_ptr = r] ELSE s1
                 s3 == asd_copy(s2, s2.vec[other].m_data_ptr, s2.vec[other].m_count,
                                s2.vec[v].m_data_ptr, g)
             IN  init(s3, v, size(s3, other), size(s3, other), s3.vec[v].m_data_ptr)

\* move assignment that does not reset its source
assign_move_noreset(s, v, other) ==
    LET s1 == destroy(s, v)
        o == s1.vec[other]
    IN  init(s1, v, o.m_capacity, o.m_count, o.m_data_ptr)

assign_move(s, v, other) ==
    LET s1 == destroy(s, v)
        o == s1.vec[other]
        s2 == init(s1, v, o.m_capacity, o.m_count, o.m_data_ptr)
    IN  reset(s2, other)

vector_dtor(s, v) ==
    [destroy(s, v) EXCEPT !.vec[v] = NoVector]

\* T(std::forward<Args>(args)...): the element T's constructor builds from the
\* argument pack; the packs used are the one-argument packs <<x>>, from which
\* T's converting constructor builds the element x (std::string from "asd").
ArgPacks == {<<x>> : x \in Values}

T_ctor(args) == args[1]

\* push_back that grows only once the count exceeds the capacity
push_back_gt(s, v, item, r) ==
    LET s1 == IF s.vec[v].m_count > s.vec[v].m_capacity THEN reallocate(s, v, r) ELSE s
    IN  IF s1.exc THEN s1
        ELSE LET s2 == construct(s1, s1.vec[v].m_data_ptr, s1.vec[v].m_count, item)
             IN  [s2 EXCEPT !.vec[v].m_count = @ + 1]

push_back(s, v, item, r) ==
    LET s1 == IF s.vec[v].m_count = s.vec[v].m_capacity THEN reallocate(s, v, r) ELSE s
    IN  IF s1.exc THEN s1
        ELSE LET s2 == construct(s1, s1.vec[v].m_data_ptr, s1.vec[v].m_count, item)
             IN  [s2 EXCEPT !.vec[v].m_count = @ + 1]

\* emplace_back that does not count the element it constructed
emplace_back_nocount(s, v, args, r) ==
    LET s1 == IF s.vec[v].m_count = s.vec[v].m_capacity THEN reallocate(s, v, r) ELSE s
    IN  IF s1.exc THEN s1
        ELSE construct(s1, s1.vec[v].m_data_ptr, s1.vec[v].m_count, T_ctor(args))

emplace_back(s, v, args, r) ==
    LET s1 == IF s.vec[v].m_count = s.vec[v].m_capacity THEN reallocate(s, v, r) ELSE s
    IN  IF s1.exc THEN s1
        ELSE LET s2 == construct(s1, s1.vec[v].m_data_ptr, s1.vec[v].m_count, T_ctor(args))
             IN  [s2 EXCEPT !.vec[v].m_count = @ + 1]

\* operator[] (read): the element at idx, for idx < size()
at(v, idx) == heap[vec[v].m_data_ptr].slots[idx + 1]

\* operator[] (write through the returned reference): v[idx] = x
subscript_assign(s, v, idx, x) ==
    [s EXCEPT !.heap[s.vec[v].m_data_ptr].slots[idx + 1] = x]

\* ---- history of a vector that was default constructed and only pushed to ----
Impure == [pure |-> FALSE, seq |-> <<>>]
Fresh == [pure |-> TRUE, seq |-> <<>>]

Pushed(h, v, s, x) ==
    IF h[v].pure /\ ~s.exc THEN [h EXCEPT ![v].seq = Append(@, x)] ELSE h

\* ---- one step of the program ----
Running == last.res # "trap"

Commit(s, op, dst, src, res, h) ==
    /\ vec' = s.vec
    /\ heap' = s.heap
    /\ last' = [op |-> op, dst |-> dst, src |-> src, res |-> res, ev |-> s.ev]
    /\ hist' = h

Res(s) == IF s.exc THEN "OutOfMemory" ELSE "ok"

DefaultCtor(v) ==
    /\ Running /\ ~vec[v].alive
    /\ Commit(vector_default(Start, v), "vector", v, 0, "ok", [hist EXCEPT ![v] = Fresh])

CopyCtor(v, other) ==
    /\ Running /\ ~vec[v].alive /\ vec[other].alive
    /\ \E r \in MallocResults(heap) :
         LET s == vector_copy(Start, v, other, r)
         IN  Commit(s, "vector_copy", v, other, Res(s), [hist EXCEPT ![v] = Impure])

MoveCtor(v, other) ==
    /\ Running /\ ~vec[v].alive /\ vec[other].alive
    /\ Commit(vector_move(Start, v, other), "vector_move", v, other, "ok",
              [hist EXCEPT ![v] = Impure, ![other] = Impure])

SelfCopies(v, other) ==
    IF v = other THEN [1..vec[v].m_count -> Values] ELSE {<<>>}

CopyAssign(v, other) ==
    /\ Running /\ vec[v].alive /\ vec[other].alive
    /\ \E r \in MallocResults(heap), g \in SelfCopies(v, other) :
         LET s == assign_copy(Start, v, other, r, g)
         IN  Commit(s, "assign_copy", v, other, Res(s),
                    IF s.exc THEN hist ELSE [hist EXCEPT ![v] = Impure])

\* operator=(vector&&) has no return statement: flowing off its end is
\* undefined; the body has run, and the call either returns or traps.
MoveAssign(v, other) ==
    /\ Running /\ vec[v].alive /\ vec[other].alive
    /\ \E res \in {"ok", "trap"} :
         Commit(assign_move(Start, v, other), "assign_move", v, other, res,
                [hist EXCEPT ![v] = Impure, ![other] = Impure])

Dtor(v) ==
    /\ Running /\ vec[v].alive
    /\ Commit(vector_dtor(Start, v), "dtor", v, 0, "ok", [hist EXCEPT ![v] = Impure])

PushBack(v, item) ==
    /\ Running /\ vec[v].alive
    /\ \E r \in MallocResults(heap) :
         LET s == push_back(Start, v, item, r)
         IN  Commit(s, "push_back", v, 0, Res(s), Pushed(hist, v, s, item))

EmplaceBack(v, args) ==
    /\ Running /\ vec[v].alive
    /\ \E r \in MallocResults(heap) :
         LET s == emplace_back(Start, v, args, r)
         IN  Commit(s, "emplace_back", v, 0, Res(s), Pushed(hist, v, s, T_ctor(args)))

SubscriptAssign(v, idx, x) ==
    /\ Running /\ vec[v].alive /\ idx < vec[v].m_count
    /\ Commit(subscript_assign(Start, v, idx, x), "subscript", v, 0, "ok",
              [hist EXCEPT ![v] = Impure])

Init ==
    /\ vec = [v \in VecIds |-> NoVector]
    /\ heap = [r \in Regions |-> FreeRegion]
    /\ last = [op |-> "start", dst |-> 0, src |-> 0, res |-> "ok", ev |-> <<>>]
    /\ hist = [v \in VecIds |-> Impure]

Next ==
    \/ \E v \in VecIds : DefaultCtor(v)
    \/ \E v, o \in VecIds : CopyCtor(v, o)
    \/ \E v, o \in VecIds : MoveCtor(v, o)
    \/ \E v, o \in VecIds : CopyAssign(v, o)
    \/ \E v, o \in VecIds : MoveAssign(v, o)
    \/ \E v \in VecIds : Dtor(v)
    \/ \E v \in VecIds, x \in Values : vec[v].m_count < MaxCount /\ PushBack(v, x)
    \/ \E v \in VecIds, a \in ArgPacks : vec[v].m_count < MaxCount /\ EmplaceBack(v, a)
    \/ \E v \in VecIds, i \in 0..(MaxCount - 1), x \in Values : SubscriptAssign(v, i, x)

Spec == Init /\ [][Next]_vars

\* A single vector that is default constructed and then only inserted into.
NextPush ==
    \/ DefaultCtor(1)
    \/ \E x \in Values : vec[1].m_count < PushBound /\ PushBack(1, x)
    \/ \E a \in ArgPacks : vec[1].m_count < PushBound /\ EmplaceBack(1, a)

SpecPush == Init /\ [][NextPush]_vars

\* Two vectors that are constructed, inserted into, moved and destroyed, but
\* never copy assigned or written through operator[].
NextGrow ==
    \/ \E v \in VecIds : DefaultCtor(v)
    \/ \E v, o \in VecIds : CopyCtor(v, o)
    \/ \E v, o \in VecIds : MoveCtor(v, o)
    \/ \E v, o \in VecIds : MoveAssign(v, o)
    \/ \E v \in VecIds : Dtor(v)
    \/ \E v \in VecIds, x \in Values : vec[v].m_count < MidCount /\ PushBack(v, x)
    \/ \E v \in VecIds, a \in ArgPacks : vec[v].m_count < MidCount /\ EmplaceBack(v, a)

SpecGrow == Init /\ [][NextGrow]_vars

\* ---- observations used by the properties ----
Alive == {v \in VecIds : vec[v].alive}

\* the elements a client reads with operator[] for 0 <= i < size()
Contents(vs, h, v) == [j \in 1..vs[v].m_count |-> h[vs[v].m_data_ptr].slots[j]]

Events(k) == {j \in 1..Len(last.ev) : last.ev[j].k = k}

Inserts == {"push_back", "emplace_back"}

\* C1: after k successful push_back/emplace_back calls on a default-constructed
\* vector, size() = k, capacity() >= size() and operator[](i) is the i-th value
\* pushed, for every i < k.
C1_PushKeepsInsertionOrder ==
    \A v \in VecIds :
        hist[v].pure =>
            /\ vec[v].alive
            /\ vec[v].m_count = Len(hist[v].seq)
            /\ vec[v].m_capacity >= vec[v].m_count
            /\ \A i \in 0..(vec[v].m_count - 1) : at(v, i) = hist[v].seq[i + 1]

C1_Witness ==
    /\ hist[1].pure
    /\ Len(hist[1].seq) = PushBound
    /\ hist[1].seq[1] # hist[1].seq[2]
    /\ last.op = "push_back" /\ last.res = "ok"
    /\ Events("allocate") # {}

\* C2: every vector satisfies 0 <= count <= capacity in every reachable state.
C2_CountWithinCapacity ==
    \A v \in Alive : 0 <= vec[v].m_count /\ vec[v].m_count <= vec[v].m_capacity

C2_Witness ==
    /\ last.op = "assign_copy" /\ last.res = "ok"
    /\ vec[last.dst].m_count = MaxCount
    /\ vec[last.dst].m_capacity = MaxCount

\* C3: a vector's storage pointer is null if and only if its capacity is 0.
C3_NullIffCapacityZero ==
    \A v \in Alive : (vec[v].m_data_ptr = Null) <=> (vec[v].m_capacity = 0)

C3_Witness ==
    /\ last.op = "assign_copy" /\ last.res = "ok"
    /\ vec[last.dst].m_capacity = 0
    /\ vec[last.dst].m_data_ptr # Null

\* C4: when the allocation made by growth fails during push_back or
\* emplace_back, the call reports OutOfMemory and changes nothing: every
\* vector member and every slot of every region is as before the call.
C4_FailedGrowthChangesNothing ==
    [][ (last'.op \in Inserts /\ \E j \in 1..Len(last'.ev) : last'.ev[j].k = "bad_alloc")
            => /\ vec[last'.dst].m_count = vec[last'.dst].m_capacity
               /\ last'.res = "OutOfMemory"
               /\ vec' = vec
               /\ heap' = heap ]_vars

C4_Witness ==
    /\ last.op = "push_back" /\ last.res = "OutOfMemory"
    /\ vec[last.dst].m_count >= 1
    /\ IsLive(at(last.dst, 0))

\* C5: copy assignment never constructs an element into a slot that still
\* holds an object.
C5_NoConstructOverLive ==
    last.op = "assign_copy" => \A j \in Events("construct") : ~last.ev[j].live

\* the members of a vector other than the one(s) an operation was applied to
Mutated(l) == IF l.op \in {"vector_move", "assign_move"} THEN {l.dst, l.src} ELSE {l.dst}

\* C6: a copy-constructed vector has the size and the elements of its source,
\* the source is unchanged, the copy has storage of its own, and an operation
\* applied to one vector leaves the size and every element of any other
\* vector unchanged (a copy and its source in particular).
C6_CopyIsEqualAndIndependent ==
    [][ /\ (last'.op = "vector_copy" /\ last'.res = "ok") =>
              /\ vec'[last'.dst].alive
              /\ vec'[last'.dst].m_count = vec[last'.src].m_count
              /\ Contents(vec', heap', last'.dst) = Contents(vec, heap, last'.src)
              /\ vec'[last'.src] = vec[last'.src]
              /\ Contents(vec', heap', last'.src) = Contents(vec, heap, last'.src)
              /\ vec'[last'.dst].m_count > 0 =>
                    /\ vec'[last'.dst].m_data_ptr # Null
                    /\ vec'[last'.dst].m_data_ptr # vec'[last'.src].m_data_ptr
        /\ \A w \in Alive : w \notin Mutated(last') =>
              /\ vec'[w].alive
              /\ vec'[w].m_count = vec[w].m_count
              /\ Contents(vec', heap', w) = Contents(vec, heap, w) ]_vars

C6_Witness ==
    /\ last.op = "vector_copy" /\ last.res = "ok"
    /\ vec[last.dst].m_count = MaxCount
    /\ at(last.dst, 0) # at(last.dst, 1)
    /\ Contents(vec, heap, last.dst) = Contents(vec, heap, last.src)

EmptyVector == [alive |-> TRUE, m_count |-> 0, m_capacity |-> 0, m_data_ptr |-> Null]

\* C7: move construction gives the new vector the source's storage pointer,
\* count and capacity, touches no region and no element, and leaves the source
\* empty with null storage.
C7_MoveCtorTransfersStorage ==
    [][ last'.op = "vector_move" =>
            /\ vec'[last'.dst] = vec[last'.src]
            /\ Contents(vec', heap', last'.dst) = Contents(vec, heap, last'.src)
            /\ heap' = heap
            /\ last'.ev = <<>>
            /\ vec'[last'.src] = EmptyVector ]_vars

C7_Witness ==
    /\ last.op = "vector_move"
    /\ vec[last.dst].m_count = MaxCount
    /\ vec[last.dst].m_data_ptr # Null
    /\ vec[last.src] = EmptyVector

\* C8: no region is referenced by two vectors, every region a vector
\* references is allocated, and no operation releases a region twice or
\* touches a slot outside an allocated region.
C8_SoleOwnership ==
    /\ \A v \in Alive, w \in Alive :
          (v # w /\ vec[v].m_data_ptr # Null) => vec[v].m_data_ptr # vec[w].m_data_ptr
    /\ \A v \in Alive : vec[v].m_data_ptr # Null => heap[vec[v].m_data_ptr].alloc
    /\ Events("double_free") = {} /\ Events("wild_write") = {} /\ Events("wild_destruct") = {}

C8_Witness ==
    /\ last.op = "assign_move"
    /\ last.dst # last.src
    /\ \E j \in Events("deallocate") : last.ev[j].p # Null
    /\ vec[last.dst].m_data_ptr # Null
    /\ vec[last.src].m_data_ptr = Null

IsGrowthCapacity(c) == c = 0 \/ \E e \in 0..c : 2 ^ e = c

\* C9: for a default-constructed vector that is only inserted into, capacity
\* starts at 0, changes only in an insertion called with count = capacity, the
\* first growth gives 1 and every later one doubles; an insertion called with
\* count < capacity leaves capacity and the storage pointer unchanged.
C9_CapacityDoubles ==
    [][ \A v \in VecIds : hist'[v].pure =>
            /\ ~hist[v].pure => vec'[v].m_capacity = 0
            /\ IsGrowthCapacity(vec'[v].m_capacity)
            /\ hist[v].pure =>
                  /\ vec'[v].m_capacity # vec[v].m_capacity =>
                        /\ last'.op \in Inserts /\ last'.dst = v
                        /\ vec[v].m_count = vec[v].m_capacity
                        /\ vec'[v].m_capacity =
                              IF vec[v].m_capacity = 0 THEN 1 ELSE 2 * vec[v].m_capacity
                  /\ (last'.op \in Inserts /\ last'.dst = v /\ vec[v].m_count < vec[v].m_capacity) =>
                        /\ vec'[v].m_capacity = vec[v].m_capacity
                        /\ vec'[v].m_data_ptr = vec[v].m_data_ptr ]_vars

C9_Witness ==
    /\ hist[1].pure
    /\ vec[1].m_capacity = 8
    /\ last.op = "emplace_back" /\ last.res = "ok"

\* C10: a copy assignment dst = src between distinct vectors that does not
\* fail gives dst the size and the elements of src and leaves src unchanged;
\* when dst's capacity was at least src's count dst keeps its region and
\* nothing is allocated, otherwise dst owns a newly allocated region of
\* exactly src.count slots and its previous region has been released.
C10_CopyAssignPostcondition ==
    [][ (last'.op = "assign_copy" /\ last'.res = "ok" /\ last'.dst # last'.src) =>
            LET d == last'.dst
                o == last'.src
                old == vec[d].m_data_ptr
                new == vec'[d].m_data_ptr
                allocs == {j \in 1..Len(last'.ev) : last'.ev[j].k = "allocate"}
            IN  /\ vec'[d].m_count = vec[o].m_count
                /\ Contents(vec', heap', d) = Contents(vec, heap, o)
                /\ vec'[o] = vec[o]
                /\ Contents(vec', heap', o) = Contents(vec, heap, o)
                /\ IF vec[d].m_capacity >= vec[o].m_count
                   THEN new = old /\ allocs = {}
                   ELSE /\ new # Null /\ new # old
                        /\ ~heap[new].alloc /\ heap'[new].alloc
                        /\ Len(heap'[new].slots) = vec[o].m_count
                        /\ Cardinality(allocs) = 1
                        /\ old # Null => ~heap'[old].alloc ]_vars

C10_Witness ==
    /\ last.op = "assign_copy" /\ last.res = "ok" /\ last.dst # last.src
    /\ vec[last.dst].m_count = MaxCount
    /\ Events("allocate") # {}
    /\ \E j \in Events("deallocate") : last.ev[j].p # Null

\* the positions of the events of kind k in an event trace
EvIdx(ev, k) == {j \in 1..Len(ev) : ev[j].k = k}

\* the slots of region p that hold a live element
LiveSlots(h, p) == IF p = Null THEN {} ELSE {j \in 1..Len(h[p].slots) : IsLive(h[p].slots[j])}

\* C11: move assignment dst = move(src) between distinct vectors returns
\* normally, destructs each live element of dst exactly once, releases dst's
\* previous region exactly once, allocates nothing, gives dst the storage
\* pointer, count and capacity src had, and leaves src empty.
C11_MoveAssignPostcondition ==
    [][ (last'.op = "assign_move" /\ last'.dst # last'.src) =>
            LET d == last'.dst
                o == last'.src
                old == vec[d].m_data_ptr
                ev == last'.ev
            IN  /\ last'.res = "ok"
                /\ \A j \in LiveSlots(heap, old) :
                      Cardinality({e \in EvIdx(ev, "destruct") :
                                      ev[e].p = old /\ ev[e].i = j - 1}) = 1
                /\ old # Null =>
                      Cardinality({e \in EvIdx(ev, "deallocate") : ev[e].p = old}) = 1
                /\ EvIdx(ev, "allocate") = {} /\ EvIdx(ev, "bad_alloc") = {}
                /\ vec'[d] = vec[o]
                /\ vec'[o] = EmptyVector ]_vars

\* C12: in the region of every vector exactly the slots [0, count) hold live
\* elements; every other slot of the region holds no live element.
C12_LiveExactlyBelowCount ==
    \A v \in Alive :
        vec[v].m_data_ptr # Null =>
            \A j \in 1..Len(heap[vec[v].m_data_ptr].slots) :
                (j <= vec[v].m_count) <=> IsLive(heap[vec[v].m_data_ptr].slots[j])

\* C13: no region is released while it still contains a live element: every
\* element constructed in it has been destructed or moved from.
C13_NoLiveElementAtRelease ==
    \A j \in Events("deallocate") : ~last.ev[j].live

\* the number of slots of the region a vector owns
RegionSize(v) == IF vec[v].m_data_ptr = Null THEN 0 ELSE Len(heap[vec[v].m_data_ptr].slots)

\* C16: the recorded capacity of a vector is the number of slots of the
\* region it owns (0 when it owns none).
C16_CapacityIsRegionSize ==
    \A v \in Alive : vec[v].m_capacity = RegionSize(v)

\* C14: on every vector, emplace_back(args) and push_back(T(args)) leave the
\* same members, heap, events and result; they grow exactly when count =
\* capacity, and on success count is one more, the new element is at index old
\* count and the elements below it are unchanged.
C14_EmplaceBackIsPushBack ==
    \A v \in Alive, a \in ArgPacks, r \in MallocResults(heap) :
        LET e == emplace_back(Start, v, a, r)
            p == push_back(Start, v, T_ctor(a), r)
            n == vec[v].m_count
            grows == EvIdx(e.ev, "allocate") # {} \/ EvIdx(e.ev, "bad_alloc") # {}
        IN  /\ e.vec = p.vec /\ e.heap = p.heap /\ e.exc = p.exc /\ e.ev = p.ev
            /\ grows <=> (n = vec[v].m_capacity)
            /\ ~e.exc =>
                  /\ e.vec[v].m_count = n + 1
                  /\ e.heap[e.vec[v].m_data_ptr].slots[n + 1] = T_ctor(a)
                  /\ \A j \in 1..n :
                        e.heap[e.vec[v].m_data_ptr].slots[j] = heap[vec[v].m_data_ptr].slots[j]

C14_Witness ==
    /\ last.op = "emplace_back" /\ last.res = "ok"
    /\ vec[last.dst].m_count = 1
    /\ IsLive(at(last.dst, 0))
    /\ \E w \in Alive : w # last.dst /\ vec[w].m_count = MidCount /\ vec[w].m_capacity > MidCount

\* C15: an insertion that grows allocates the doubled region, move-constructs
\* the elements into it in increasing index order, then releases the old
\* region once while the members still name it, and only then takes the new
\* region and capacity; growth adds nothing to count and every element reads
\* as before.
C15_GrowthStep ==
    [][ (last'.op \in Inserts /\ last'.res = "ok"
            /\ vec[last'.dst].m_count = vec[last'.dst].m_capacity) =>
            LET d == last'.dst
                n == vec[d].m_count
                old == vec[d].m_data_ptr
                new == vec'[d].m_data_ptr
                cap2 == IF vec[d].m_capacity = 0 THEN 1 ELSE 2 * vec[d].m_capacity
                ev == last'.ev
            IN  /\ Len(ev) = n + 3
                /\ ev[1] = Ev("allocate", new, cap2, FALSE)
                /\ \A i \in 0..(n - 1) : ev[i + 2] = Ev("construct", new, i, FALSE)
                /\ ev[n + 2] = Ev("deallocate", old, 0, FALSE)
                /\ ev[n + 3] = Ev("construct", new, n, FALSE)
                /\ new # old /\ heap'[new].alloc
                /\ old # Null => ~heap'[old].alloc
                /\ vec'[d].m_capacity = cap2
                /\ vec'[d].m_count = n + 1
                /\ \A j \in 1..n : heap'[new].slots[j] = heap[old].slots[j] ]_vars

C15_Witness ==
    /\ last.op = "push_back" /\ last.res = "ok"
    /\ vec[last.dst].m_capacity = 8
    /\ Len(last.ev) = 7
    /\ at(last.dst, 0) # at(last.dst, 1)

\* C17: copy construction from an empty source gives the empty state and
\* allocates nothing; from a source of n > 0 elements it makes exactly one
\* allocation, of exactly n slots, and sets count = capacity = n whatever the
\* source's capacity is.
C17_CopyCtorAllocation ==
    [][ (last'.op = "vector_copy" /\ last'.res = "ok") =>
            LET d == last'.dst
                n == vec[last'.src].m_count
                ev == last'.ev
            IN  IF n = 0
                THEN vec'[d] = EmptyVector /\ ev = <<>> /\ heap' = heap
                ELSE /\ Cardinality(EvIdx(ev, "allocate")) = 1
                     /\ EvIdx(ev, "bad_alloc") = {}
                     /\ ev[1] = Ev("allocate", vec'[d].m_data_ptr, n, FALSE)
                     /\ Len(heap'[vec'[d].m_data_ptr].slots) = n
                     /\ vec'[d].m_count = n
                     /\ vec'[d].m_capacity = n ]_vars

C17_Witness ==
    /\ last.op = "vector_copy" /\ last.res = "ok"
    /\ vec[last.src].m_capacity > vec[last.src].m_count
    /\ vec[last.dst].m_count = MidCount
    /\ vec[last.dst].m_capacity = MidCount

BecomesNonEmpty(v) ==
    vec[v].alive /\ vec'[v].alive /\ vec[v].m_count = 0 /\ vec'[v].m_count > 0

GrowingInsert(v) ==
    last'.op \in Inserts /\ last'.dst = v /\ EvIdx(last'.ev, "allocate") # {}

\* C18 as stated: default construction gives the empty state without
\* allocating, and a vector's count goes from 0 to a positive value only in a
\* push_back/emplace_back that grows.
C18_OnlyInsertionMakesNonEmpty ==
    [][ /\ last'.op = "vector" =>
              vec'[last'.dst] = EmptyVector /\ last'.ev = <<>> /\ heap' = heap
        /\ \A v \in VecIds : BecomesNonEmpty(v) => GrowingInsert(v) ]_vars

\* C18 (amended): default construction gives the empty state without
\* allocating, and a vector's count goes from 0 to a positive value only in a
\* push_back/emplace_back that grows, or in a copy or move assignment to it
\* from another, non-empty vector.
C18_InsertionOrAssignmentMakesNonEmpty ==
    [][ /\ last'.op = "vector" =>
              vec'[last'.dst] = EmptyVector /\ last'.ev = <<>> /\ heap' = heap
        /\ \A v \in VecIds : BecomesNonEmpty(v) =>
              \/ GrowingInsert(v)
              \/ /\ last'.op \in {"assign_copy", "assign_move"}
                 /\ last'.dst = v /\ last'.src # v
                 /\ vec[last'.src].m_count > 0 ]_vars

C18_Witness ==
    /\ last.op = "assign_copy" /\ last.res = "ok" /\ last.dst # last.src
    /\ vec[last.dst].m_count > 0
    /\ Events("allocate") # {}
    /\ \E j \in Events("deallocate") : last.ev[j].p = Null

\* C19: when the allocation in copy assignment fails, the call reports
\* OutOfMemory and nothing has changed: no element destructed, no region
\* released, every member of destination and source and every slot as before.
C19_FailedCopyAssignChangesNothing ==
    [][ (last'.op = "assign_copy" /\ EvIdx(last'.ev, "bad_alloc") # {}) =>
            /\ vec[last'.dst].m_capacity < vec[last'.src].m_count
            /\ last'.res = "OutOfMemory"
            /\ EvIdx(last'.ev, "destruct") = {}
            /\ EvIdx(last'.ev, "deallocate") = {}
            /\ vec' = vec
            /\ heap' = heap ]_vars

C19_Witness ==
    /\ last.op = "assign_copy" /\ last.res = "OutOfMemory"
    /\ vec[last.dst].m_count >= 1
    /\ IsLive(at(last.dst, 0))
    /\ vec[last.src].m_count > vec[last.dst].m_capacity

\* the vectors whose storage pointer is region r
Owners(r) == {v \in Alive : vec[v].m_data_ptr = r}

\* C20: every allocated region is held by exactly one vector, which releases
\* it once: no operation releases a region twice, and once every vector is
\* destroyed no region is left allocated.
C20_EveryRegionReleasedOnce ==
    /\ \A r \in Regions : heap[r].alloc => Cardinality(Owners(r)) = 1
    /\ Events("double_free") = {}
    /\ Alive = {} => \A r \in Regions : ~heap[r].alloc

C20_Witness ==
    /\ Alive = {}
    /\ last.op = "dtor"
    /\ \E j \in Events("deallocate") : last.ev[j].p # Null
    /\ \A r \in Regions : ~heap[r].alloc
====
